---------------------------- MODULE Spec2Model ----------------------------
(***************************************************************************)
(* Forum backend (categories, topics, replies, votes, bearer tokens).      *)
(*                                                                         *)
(* The relational store is modelled as one set of rows per table.  A       *)
(* handler that issues several SQL statements is modelled statement by     *)
(* statement (pc names the next statement), so the states between two      *)
(* statements are states of the model.  Under Spec requests are served one *)
(* at a time; SpecVoteRace lets two vote requests interleave.              *)
(***************************************************************************)
EXTENDS Integers, FiniteSets, Sequences, TLC

\* ------------------------------------------------------------------ bounds
\* Rows the store accepts in one run, over all tables (the category present
\* at Init included).
MaxInserts == 5

\* Python None / SQL NULL for an integer column or argument.  Ids start at 1
\* and the code tests arguments by truthiness, which 0 and None both fail.
NULL == 0

Users == {1, 2, 3}
Admins == {1}
\* The author of the rows Spec inserts; SpecModeration draws authors from Users.
Authors == {2}
Username(u) == CASE u = 1 -> "admin" [] u = 2 -> "alice" [] OTHER -> "bob"

Titles == {"Hello"}
Texts == {"First post"}
CatNames == {"General", "Offtopic"}

VARIABLES
    categories,     \* rows of table categories
    topics,         \* rows of table topics
    replies,        \* rows of table replies
    perms,          \* rows of table users_categories_permissions
    nextId,         \* the store's AUTO_INCREMENT counters
    pc,             \* next statement of the request being served, or "idle"
    req,            \* the request being served / the one served last
    pre,            \* the tables as they were when that request started
    token_blacklist,\* users_services.token_blacklist
    now,            \* the clock jwt.decode compares exp with
    auth,           \* the token validation made last and its outcome
    votes,          \* table votes: how many rows each (user, reply, type) has
    vpc,            \* per vote request: "idle", or "looked" between the
                    \* lookup and the write
    vreq,           \* per vote request: its arguments and what has_voted saw
    vlast,          \* the vote request completed last
    raced,          \* the (user, reply) pairs on which two requests overlapped
    resp            \* the listing call made last: its arguments and answer

forumvars == <<categories, topics, replies, perms, nextId, pc, req, pre>>
authvars == <<token_blacklist, now, auth>>
votevars == <<votes, vpc, vreq, vlast, raced>>
queryvars == <<resp>>

dbvars == <<categories, topics, replies, perms, nextId>>

Snapshot == [categories |-> categories, topics |-> topics,
             replies |-> replies, perms |-> perms]

\* Kept in pre by the requests whose effect no property looks at.
NoSnapshot == [categories |-> {}, topics |-> {}, replies |-> {}, perms |-> {}]

\* Rows inserted so far, from the AUTO_INCREMENT counters.
Inserted == (nextId.category - 1) + (nextId.topic - 1) + (nextId.reply - 1)

NoReq == [op |-> "none"]

\* ------------------------------------------------------------ data access
CategoryRow(id, name, locked, private) ==
    [category_id |-> id, name |-> name, is_locked |-> locked, is_private |-> private]

TopicRow(id, title, user, locked, best, cat) ==
    [topic_id |-> id, title |-> title, user_id |-> user, is_locked |-> locked,
     best_reply_id |-> best, category_id |-> cat]

\* created is the store's DEFAULT CURRENT_TIMESTAMP, one tick per insert.
ReplyRow(id, text, user, topic, created) ==
    [reply_id |-> id, text |-> text, user_id |-> user, topic_id |-> topic,
     created |-> created, edited |-> 0]

PermRow(user, cat, wa) == [user_id |-> user, category_id |-> cat, write_access |-> wa]

\* ------------------------------------------------- categories_services.py
\* Mutant: every category is taken to exist.
CategoryExists_Always(category_id, name) == TRUE

\* exists(category_id, name): by id when an id is given, else by name.
CategoryExists(category_id, name) ==
    IF category_id # NULL
    THEN \E c \in categories : c.category_id = category_id
    ELSE IF name # ""
         THEN \E c \in categories : c.name = name
         ELSE FALSE

\* has_topics(category_id)
HasTopics(category_id) == \E t \in topics : t.category_id = category_id

\* DELETE FROM users_categories_permissions WHERE category_id = ?
DeletePermsOfCategory(rows, category_id) ==
    {p \in rows : p.category_id # category_id}

\* Mutant: the subquery selects on topic_id instead of category_id.
DeleteRepliesOfCategory_ByTopicId(rows, trows, category_id) ==
    {r \in rows : ~\E t \in trows : /\ t.topic_id = category_id
                                    /\ t.topic_id = r.topic_id}

\* DELETE FROM replies WHERE topic_id IN
\*   (SELECT t.topic_id FROM topics t WHERE t.category_id = ?)
DeleteRepliesOfCategory(rows, trows, category_id) ==
    {r \in rows : ~\E t \in trows : /\ t.category_id = category_id
                                    /\ t.topic_id = r.topic_id}

\* DELETE FROM topics WHERE category_id = ?
DeleteTopicsOfCategory(trows, category_id) ==
    {t \in trows : t.category_id # category_id}

\* DELETE FROM categories WHERE category_id = ?
DeleteCategoryRow(rows, category_id) ==
    {c \in rows : c.category_id # category_id}

\* create(category)
CreateCategory(name, locked, private) ==
    /\ pc = "idle"
    /\ Inserted + 1 <= MaxInserts
    /\ pre' = Snapshot
    /\ IF CategoryExists(NULL, name)
       THEN /\ req' = [op |-> "create_category", name |-> name, result |-> "Conflict"]
            /\ UNCHANGED dbvars
       ELSE /\ categories' = categories \cup
                    {CategoryRow(nextId.category, name, locked, private)}
            /\ nextId' = [nextId EXCEPT !.category = @ + 1]
            /\ req' = [op |-> "create_category", name |-> name,
                       result |-> "created"]
            /\ UNCHANGED <<topics, replies, perms>>
    /\ UNCHANGED pc

\* delete(category_id, delete_topics), lines 114-118: the existence check and
\* the delete from users_categories_permissions.
DeleteCategoryStart(category_id, delete_topics) ==
    /\ pc = "idle"
    /\ pre' = Snapshot
    /\ IF ~CategoryExists(category_id, "")
       THEN /\ req' = [op |-> "delete_category", category_id |-> category_id,
                       delete_topics |-> delete_topics, result |-> "NotFound"]
            /\ UNCHANGED <<pc, dbvars>>
       ELSE /\ perms' = DeletePermsOfCategory(perms, category_id)
            /\ req' = [op |-> "delete_category", category_id |-> category_id,
                       delete_topics |-> delete_topics, result |-> "running"]
            /\ pc' = "dc_replies"
            /\ UNCHANGED <<categories, topics, replies, nextId>>

\* lines 120-130: has_topics, and the delete from replies when the cascade
\* was asked for and the category has topics.
DeleteCategoryReplies ==
    /\ pc = "dc_replies"
    /\ IF req.delete_topics /\ HasTopics(req.category_id)
       THEN /\ replies' = DeleteRepliesOfCategory(replies, topics, req.category_id)
            /\ pc' = "dc_topics"
       ELSE /\ pc' = "dc_category"
            /\ UNCHANGED replies
    /\ UNCHANGED <<categories, topics, perms, nextId, req, pre>>

\* line 132
DeleteCategoryTopics ==
    /\ pc = "dc_topics"
    /\ topics' = DeleteTopicsOfCategory(topics, req.category_id)
    /\ pc' = "dc_category"
    /\ UNCHANGED <<categories, replies, perms, nextId, req, pre>>

\* lines 135-145; update_query is taken to return the number of rows the
\* statement changed.
DeleteCategoryFinish ==
    /\ pc = "dc_category"
    /\ categories' = DeleteCategoryRow(categories, req.category_id)
    /\ req' = [req EXCEPT !.result =
                  IF /\ req.delete_topics
                     /\ \E t \in pre.topics : t.category_id = req.category_id
                     /\ replies # pre.replies
                  THEN "everything deleted" ELSE "only category deleted"]
    /\ pc' = "idle"
    /\ UNCHANGED <<topics, replies, perms, nextId, pre>>

\* UPDATE categories SET name = ? [WHERE category_id = ? | WHERE name = ?],
\* lines 175-188
RenameCategory(rows, old_id, old_name, new_name) ==
    {IF \/ old_id # NULL /\ c.category_id = old_id
        \/ old_id = NULL /\ old_name # "" /\ c.name = old_name
        \/ old_id = NULL /\ old_name = ""
     THEN [c EXCEPT !.name = new_name] ELSE c : c \in rows}

\* update_name(old_category, new_category).  get_id (line 190) reads the first
\* row of an empty result when no row carries the new name.
UpdateName(old_id, old_name, new_name) ==
    /\ pc = "idle"
    /\ pre' = Snapshot
    /\ IF ~(CategoryExists(NULL, old_name) \/ CategoryExists(old_id, ""))
       THEN /\ req' = [op |-> "update_name", name |-> new_name, result |-> "NotFound"]
            /\ UNCHANGED categories
       ELSE IF CategoryExists(NULL, new_name)
       THEN /\ req' = [op |-> "update_name", name |-> new_name, result |-> "Conflict"]
            /\ UNCHANGED categories
       ELSE IF new_name = ""
       THEN /\ req' = [op |-> "update_name", name |-> new_name,
                       result |-> "BadRequest"]
            /\ UNCHANGED categories
       ELSE LET updated == RenameCategory(categories, old_id, old_name, new_name)
            IN  /\ categories' = updated
                /\ req' = [op |-> "update_name", name |-> new_name,
                           result |-> IF \E c \in updated : c.name = new_name
                                      THEN "updated" ELSE "IndexError"]
    /\ UNCHANGED <<topics, replies, perms, nextId, pc>>

\* is_locked(category_id)
IsLocked(category_id) ==
    \E c \in categories : c.category_id = category_id /\ c.is_locked

\* is_private(category_id)
IsPrivate(category_id) ==
    \E c \in categories : c.category_id = category_id /\ c.is_private

\* Mutant: the statement has no WHERE clause.
SetIsLocked_AllRows(rows, category_id, value) ==
    {[c EXCEPT !.is_locked = value] : c \in rows}

\* UPDATE categories SET is_locked = ? WHERE category_id = ?
SetIsLocked(rows, category_id, value) ==
    {IF c.category_id = category_id THEN [c EXCEPT !.is_locked = value] ELSE c :
        c \in rows}

\* UPDATE categories SET is_private = ? WHERE category_id = ?
SetIsPrivate(rows, category_id, value) ==
    {IF c.category_id = category_id THEN [c EXCEPT !.is_private = value] ELSE c :
        c \in rows}

\* The categories as they were before the previous request, when that request
\* was the same toggle of the same category and went through.
BeforePrevious(op, category_id) ==
    IF /\ req.op = op
       /\ req.category_id = category_id
       /\ req.result \in {"locked", "unlocked", "made private", "made public"}
    THEN {pre.categories} ELSE {}

\* lock_unlock(category_id); update_query returns the number of rows changed.
LockUnlock(category_id) ==
    /\ pc = "idle"
    /\ pre' = Snapshot
    /\ IF ~CategoryExists(category_id, "")
       THEN /\ req' = [op |-> "lock_unlock", category_id |-> category_id,
                       result |-> "NotFound", before_previous |-> {}]
            /\ UNCHANGED categories
       ELSE IF IsLocked(category_id)
       THEN LET updated == SetIsLocked(categories, category_id, FALSE)
            IN  /\ categories' = updated
                /\ req' = [op |-> "lock_unlock", category_id |-> category_id,
                           result |-> IF updated = categories
                                      THEN "unlock failed" ELSE "unlocked",
                           before_previous |->
                               BeforePrevious("lock_unlock", category_id)]
       ELSE LET updated == SetIsLocked(categories, category_id, TRUE)
            IN  /\ categories' = updated
                /\ req' = [op |-> "lock_unlock", category_id |-> category_id,
                           result |-> IF updated = categories
                                      THEN "lock failed" ELSE "locked",
                           before_previous |->
                               BeforePrevious("lock_unlock", category_id)]
    /\ UNCHANGED <<topics, replies, perms, nextId, pc>>

\* privatise_unprivatise(category_id)
PrivatiseUnprivatise(category_id) ==
    /\ pc = "idle"
    /\ pre' = Snapshot
    /\ IF ~CategoryExists(category_id, "")
       THEN /\ req' = [op |-> "privatise_unprivatise", category_id |-> category_id,
                       result |-> "NotFound", before_previous |-> {}]
            /\ UNCHANGED categories
       ELSE IF IsPrivate(category_id)
       THEN LET updated == SetIsPrivate(categories, category_id, FALSE)
            IN  /\ categories' = updated
                /\ req' = [op |-> "privatise_unprivatise",
                           category_id |-> category_id,
                           result |-> IF updated = categories
                                      THEN "made public failed" ELSE "made public",
                           before_previous |->
                               BeforePrevious("privatise_unprivatise", category_id)]
       ELSE LET updated == SetIsPrivate(categories, category_id, TRUE)
            IN  /\ categories' = updated
                /\ req' = [op |-> "privatise_unprivatise",
                           category_id |-> category_id,
                           result |-> IF updated = categories
                                      THEN "made private failed" ELSE "made private",
                           before_previous |->
                               BeforePrevious("privatise_unprivatise", category_id)]
    /\ UNCHANGED <<topics, replies, perms, nextId, pc>>

\* ----------------------------------------------------- topics_services.py
\* UPDATE topics SET best_reply_id = NULL WHERE topic_id = ?
ClearBestReplyOfTopic(trows, topic_id) ==
    {IF t.topic_id = topic_id THEN [t EXCEPT !.best_reply_id = NULL] ELSE t
        : t \in trows}

\* Mutant: the DELETE has lost its WHERE clause.
DeleteRepliesOfTopic_NoWhere(rows, topic_id) == {}

\* DELETE FROM replies WHERE topic_id = ?
DeleteRepliesOfTopic(rows, topic_id) == {r \in rows : r.topic_id # topic_id}

\* DELETE FROM topics WHERE topic_id = ?
DeleteTopicRow(trows, topic_id) == {t \in trows : t.topic_id # topic_id}

\* UPDATE topics SET best_reply_id = ? WHERE topic_id = ?
SetBestReply(trows, topic_id, reply_id) ==
    {IF t.topic_id = topic_id THEN [t EXCEPT !.best_reply_id = reply_id] ELSE t
        : t \in trows}

\* UPDATE topics SET best_reply_id = NULL WHERE best_reply_id = ?
ClearBestReplyRefs(trows, reply_id) ==
    {IF t.best_reply_id = reply_id THEN [t EXCEPT !.best_reply_id = NULL] ELSE t
        : t \in trows}

\* The outcomes of the two insert_query calls of create_new_topic: both
\* succeed, the first fails, or the first succeeds and the second fails
\* (insert_query raises or returns no id; the code handles both alike).
InsertOutcomes == {"ok", "topic_fail", "reply_fail"}

\* create_new_topic(topic, user_id)
CreateNewTopic(title, text, category_id, user_id, outcome) ==
    /\ pc = "idle"
    /\ Inserted + 2 <= MaxInserts
    /\ pre' = Snapshot
    /\ LET call == [op |-> "create_new_topic", title |-> title, text |-> text,
                    category_id |-> category_id, user_id |-> user_id]
           trow == TopicRow(nextId.topic, title, user_id, FALSE, NULL, category_id)
           rrow == ReplyRow(nextId.reply, text, user_id, nextId.topic, nextId.reply)
       IN  IF ~\E c \in categories : c.category_id = category_id
           THEN /\ req' = call @@ [result |-> "404"]
                /\ UNCHANGED dbvars
           ELSE IF outcome = "topic_fail"
           THEN /\ req' = call @@ [result |-> "500"]
                /\ UNCHANGED dbvars
           ELSE IF outcome = "reply_fail"
           THEN /\ topics' = topics \cup {trow}
                /\ nextId' = [nextId EXCEPT !.topic = @ + 1]
                /\ req' = call @@ [result |-> "500"]
                /\ UNCHANGED <<categories, replies, perms>>
           ELSE /\ topics' = topics \cup {trow}
                /\ replies' = replies \cup {rrow}
                /\ nextId' = [nextId EXCEPT !.topic = @ + 1, !.reply = @ + 1]
                /\ req' = call @@ [result |-> "success"]
                /\ UNCHANGED <<categories, perms>>
    /\ UNCHANGED pc

\* update_best_reply_for_topic(topic_id, reply_id)
UpdateBestReplyForTopic(topic_id, reply_id) ==
    /\ pc = "idle"
    /\ pre' = NoSnapshot
    /\ topics' = SetBestReply(topics, topic_id, reply_id)
    /\ req' = [op |-> "update_best_reply", topic_id |-> topic_id,
               reply_id |-> reply_id]
    /\ UNCHANGED <<categories, replies, perms, nextId, pc>>

\* remove_best_reply(reply_id)
RemoveBestReply(reply_id) ==
    /\ pc = "idle"
    /\ pre' = NoSnapshot
    /\ topics' = ClearBestReplyRefs(topics, reply_id)
    /\ req' = [op |-> "remove_best_reply", reply_id |-> reply_id]
    /\ UNCHANGED <<categories, replies, perms, nextId, pc>>

\* delete_topic(topic_id), lines 255-258
DeleteTopicStart(topic_id) ==
    /\ pc = "idle"
    /\ pre' = Snapshot
    /\ topics' = ClearBestReplyOfTopic(topics, topic_id)
    /\ req' = [op |-> "delete_topic", topic_id |-> topic_id, result |-> "running"]
    /\ pc' = "dt_replies"
    /\ UNCHANGED <<categories, replies, perms, nextId>>

\* lines 260-263
DeleteTopicReplies ==
    /\ pc = "dt_replies"
    /\ replies' = DeleteRepliesOfTopic(replies, req.topic_id)
    /\ pc' = "dt_topic"
    /\ UNCHANGED <<categories, topics, perms, nextId, req, pre>>

\* lines 265-270
DeleteTopicFinish ==
    /\ pc = "dt_topic"
    /\ topics' = DeleteTopicRow(topics, req.topic_id)
    /\ req' = [req EXCEPT !.result = "deleted"]
    /\ pc' = "idle"
    /\ UNCHANGED <<categories, replies, perms, nextId, pre>>

\* ------------------------------------------------------ replies (service)
\* replies_services.create: a reply posted under an existing topic.
CreateReply(text, topic_id, user_id) ==
    /\ pc = "idle"
    /\ Inserted + 1 <= MaxInserts
    /\ \E t \in topics : t.topic_id = topic_id
    /\ pre' = NoSnapshot
    /\ replies' = replies \cup
            {ReplyRow(nextId.reply, text, user_id, topic_id, nextId.reply)}
    /\ nextId' = [nextId EXCEPT !.reply = @ + 1]
    /\ req' = [op |-> "create_reply", reply_id |-> nextId.reply]
    /\ UNCHANGED <<categories, topics, perms, pc>>

\* replies_services.delete: the best-reply references to the reply are
\* cleared, then the reply row is deleted.
ReplyServiceDelete(reply_id) ==
    /\ topics' = ClearBestReplyRefs(topics, reply_id)
    /\ replies' = {r \in replies : r.reply_id # reply_id}

\* --------------------------------------------------- routers/web/replies.py
\* The condition of line 83 under which delete_reply answers
\* 'User not authorised'.
DeleteRefused(user_id, reply) ==
    ~(user_id = reply.user_id \/ ~(user_id \in Admins))

\* delete_reply(reply_id, request); current_user is what
\* common.auth.get_current_user made of the cookie (NULL: no user).
DeleteReplyHandler(reply_id, current_user) ==
    /\ pc = "idle"
    /\ \E r \in replies : r.reply_id = reply_id
    /\ pre' = NoSnapshot
    /\ LET reply == CHOOSE r \in replies : r.reply_id = reply_id
           call == [op |-> "delete_reply", reply_id |-> reply_id,
                    user_id |-> current_user, owner |-> reply.user_id]
       IN  IF current_user = NULL \/ DeleteRefused(current_user, reply)
           THEN /\ req' = call @@ [called |-> FALSE, result |-> "User not authorised"]
                /\ UNCHANGED <<topics, replies>>
           ELSE /\ ReplyServiceDelete(reply_id)
                /\ req' = call @@ [called |-> TRUE, result |-> "303"]
    /\ UNCHANGED <<categories, perms, nextId, pc>>

\* ------------------------------------------------------ users_services.py
\* The latest time the model's clock shows.
MaxTime == 2
\* How many tokens a run revokes.
MaxRevoked == 2

NoUser == "<none>"
\* Usernames of table users, and one that no row has.
Usernames == {Username(u) : u \in Users}
Subjects == {"alice", "ghost"}

\* The payloads a presented token can carry.  create_access_token always adds
\* exp; sub and is_admin are whatever its caller put into data.
Payloads ==
    LET exps == {1}
    IN  {[exp |-> e] : e \in exps}
        \cup {[exp |-> e, sub |-> n] : e \in exps, n \in Subjects}
        \cup {[exp |-> e, is_admin |-> a] : e \in exps, a \in BOOLEAN}
        \cup {[exp |-> e, sub |-> n, is_admin |-> a] :
                 e \in exps, n \in Subjects, a \in BOOLEAN}

\* A token string: its payload, and whether its signature verifies under
\* SECRET_KEY.
Tokens == [payload : Payloads, signed : BOOLEAN]

\* jwt.decode(token, SECRET_KEY, algorithms=[ALGORITHM]) raises a JWTError for
\* a bad signature and for an exp that has passed.
DecodeFails(token) == ~token.signed \/ token.payload.exp < now

\* payload.get(key): None when the key is absent.
HasClaim(token, key) == key \in DOMAIN token.payload

\* get_user(username): the row of table users, or None.
GetUser(username) == IF username \in Usernames THEN username ELSE NoUser

\* What the body of the try block of get_current_user and verify_token does
\* once the token is decoded: `raise username` and `raise is_admin` raise
\* None, which is a TypeError and not a JWTError, so `except JWTError` lets it
\* through.
ClaimsOutcome(token) ==
    IF DecodeFails(token) THEN "Unauthorized"
    ELSE IF ~HasClaim(token, "sub") THEN "TypeError"
    ELSE IF ~HasClaim(token, "is_admin") THEN "TypeError"
    ELSE "ok"

AuthRecord(op, token, outcome, user) ==
    [op |-> op, token |-> token, revoked |-> token \in token_blacklist,
     at |-> now, outcome |-> outcome, user |-> user]

\* get_current_user(token)
GetCurrentUser(token) ==
    /\ auth' = IF ClaimsOutcome(token) # "ok"
               THEN AuthRecord("get_current_user", token, ClaimsOutcome(token), NoUser)
               ELSE IF GetUser(token.payload.sub) = NoUser
               THEN AuthRecord("get_current_user", token, "None", NoUser)
               ELSE AuthRecord("get_current_user", token, "user",
                               GetUser(token.payload.sub))
    /\ UNCHANGED <<token_blacklist, now>>

\* verify_token(token)
VerifyToken(token) ==
    /\ auth' = IF token \in token_blacklist
               THEN AuthRecord("verify_token", token, "Forbidden", NoUser)
               ELSE AuthRecord("verify_token", token, ClaimsOutcome(token), NoUser)
    /\ UNCHANGED <<token_blacklist, now>>

\* Logout: the raw token string is added to token_blacklist.
Logout(token) ==
    /\ Cardinality(token_blacklist \cup {token}) <= MaxRevoked
    /\ token_blacklist' = token_blacklist \cup {token}
    /\ UNCHANGED <<now, auth>>

\* Time passes.
Tick ==
    /\ now < MaxTime
    /\ now' = now + 1
    /\ UNCHANGED <<token_blacklist, auth>>

\* ------------------------------------------------------------------ votes
\* Vote requests in flight at once.
NumRequests == 2
Requests == 1..NumRequests

\* The user ids and reply ids a vote request names; user 9 has no row.
VoterIds == {2, 3, 9}
VoteReplyIds == {1, 2}
VoteKeys == VoterIds \X VoteReplyIds \X BOOLEAN
NoVotes == [k \in VoteKeys |-> 0]

\* Rows of table votes for (user_id, reply_id).
RowsOf(tbl, u, r) == tbl[<<u, r, TRUE>>] + tbl[<<u, r, FALSE>>]

\* The state of a (user, reply) pair in the vote state machine.
PairState(tbl, u, r) ==
    IF RowsOf(tbl, u, r) = 0 THEN "no-vote"
    ELSE IF tbl[<<u, r, FALSE>>] = 0 THEN "upvoted"
    ELSE IF tbl[<<u, r, TRUE>>] = 0 THEN "downvoted"
    ELSE "mixed"

\* users_services.exists(user_id)
UserExists(user_id) == user_id \in Users

\* replies_services.exists(reply_id)
ReplyExists(reply_id) == \E r \in replies : r.reply_id = reply_id

\* Mutant: the lookup selects on reply_id alone and reads the vote of any
\* user on the reply.
HasVoted_AnyUser(user_id, reply_id) ==
    IF ~UserExists(user_id) \/ ~ReplyExists(reply_id) THEN {"NotFound"}
    ELSE IF \A u \in VoterIds : RowsOf(votes, u, reply_id) = 0 THEN {"None"}
    ELSE {IF t THEN "up" ELSE "down" :
             t \in {b \in BOOLEAN : \E u \in VoterIds : votes[<<u, reply_id, b>>] > 0}}

\* has_voted(user_id, reply_id): the outcomes the call can have.  It raises
\* NotFound for a missing user or reply, returns None when no row matches and
\* else the first row the store returns; with rows of both types either can
\* come first.
HasVoted(user_id, reply_id) ==
    IF ~UserExists(user_id) \/ ~ReplyExists(reply_id) THEN {"NotFound"}
    ELSE IF RowsOf(votes, user_id, reply_id) = 0 THEN {"None"}
    ELSE {IF t THEN "up" ELSE "down" :
             t \in {b \in BOOLEAN : votes[<<user_id, reply_id, b>>] > 0}}

\* INSERT INTO votes (user_id, reply_id, type) VALUES (?, ?, ?)
InsertVote(tbl, u, r, type) == [tbl EXCEPT ![<<u, r, type>>] = @ + 1]

\* DELETE FROM votes WHERE user_id = ? AND reply_id = ?
DeleteVote(tbl, u, r) ==
    [tbl EXCEPT ![<<u, r, TRUE>>] = 0, ![<<u, r, FALSE>>] = 0]

\* UPDATE votes SET type = ? WHERE user_id = ? AND reply_id = ?
UpdateVote(tbl, u, r, type) ==
    [tbl EXCEPT ![<<u, r, type>>] = RowsOf(tbl, u, r), ![<<u, r, ~type>>] = 0]

\* What votes_services.vote returns for a vote of `type` after has_voted
\* returned `seen`.
VoteResult(seen, type) ==
    IF seen # "None" /\ (seen = "up") = type THEN "vote deleted"
    ELSE IF type THEN "upvoted" ELSE "downvoted"

\* The message the handler vote of routers/web/replies.py answers with.
VoteResponse(result) ==
    CASE result = "upvoted" -> "You have upvoted"
      [] result = "downvoted" -> "You have downvoted"
      [] result = "vote deleted" -> "Vote deleted"
      [] OTHER -> "None"

\* vote(reply_id, type, current_user), first half: has_voted.  A NotFound
\* ends the request and leaves the store as it is.
VoteLookup(p, user_id, reply_id, type) ==
    /\ vpc[p] = "idle"
    /\ \E seen \in HasVoted(user_id, reply_id) :
          IF seen = "NotFound"
          THEN UNCHANGED <<vpc, vreq, raced>>
          ELSE /\ vreq' = [vreq EXCEPT ![p] =
                              [op |-> "vote", user_id |-> user_id,
                               reply_id |-> reply_id, type |-> type, seen |-> seen]]
               /\ vpc' = [vpc EXCEPT ![p] = "looked"]
               /\ raced' = IF \E q \in Requests \ {p} :
                                  /\ vpc[q] = "looked"
                                  /\ vreq[q].user_id = user_id
                                  /\ vreq[q].reply_id = reply_id
                           THEN raced \cup {<<user_id, reply_id>>}
                           ELSE raced
    /\ UNCHANGED votes

\* vote, second half: the insert, delete or update chosen from what has_voted
\* returned.
VoteWrite(p) ==
    /\ vpc[p] = "looked"
    /\ LET c == vreq[p]
       IN  votes' = IF c.seen = "None"
                    THEN InsertVote(votes, c.user_id, c.reply_id, c.type)
                    ELSE IF (c.seen = "up") = c.type
                    THEN DeleteVote(votes, c.user_id, c.reply_id)
                    ELSE UpdateVote(votes, c.user_id, c.reply_id, c.type)
    /\ vpc' = [vpc EXCEPT ![p] = "idle"]
    /\ vreq' = [vreq EXCEPT ![p] = NoReq]
    /\ UNCHANGED raced

\* The record of a request that ended in has_voted.
LookupAnswered(user_id, reply_id, type) ==
    vlast' = IF "NotFound" \in HasVoted(user_id, reply_id)
             THEN [op |-> "vote", user_id |-> user_id, reply_id |-> reply_id,
                   type |-> type, result |-> "NotFound"]
             ELSE vlast

\* The record of a completed vote: the state of the pair before and after
\* the write, what vote returned, what the handler answered, and the vote
\* request completed before it when that was on the same pair.
WriteAnswered(p) ==
    LET c == vreq[p]
        result == VoteResult(c.seen, c.type)
    IN  vlast' = [op |-> "vote", user_id |-> c.user_id, reply_id |-> c.reply_id,
                  type |-> c.type,
                  before |-> PairState(votes, c.user_id, c.reply_id),
                  after |-> PairState(votes', c.user_id, c.reply_id),
                  result |-> result,
                  message |-> VoteResponse(result),
                  prev |-> IF /\ vlast.op = "vote"
                              /\ vlast.result # "NotFound"
                              /\ vlast.user_id = c.user_id
                              /\ vlast.reply_id = c.reply_id
                           THEN [op |-> "vote", type |-> vlast.type,
                                 before |-> vlast.before]
                           ELSE NoReq]

\* ---------------------------------------------------- replies_services.py
\* text LIKE '%pattern%' on the texts and patterns of the model.
Contains(text, pattern) ==
    \/ pattern = text
    \/ pattern = "post" /\ text = "First post"

\* SELECT u.user_id FROM users u JOIN replies r ON u.user_id = r.user_id
\* WHERE u.username = ? LIMIT 1
UserIdRow(user_name) ==
    {u \in Users : Username(u) = user_name /\ \E r \in replies : r.user_id = u}

\* lines 26-27: user_id = user_id_row[0][0] if user_id_row else user_id
ResolveUserId(user_id, user_name) ==
    IF user_name # "" /\ UserIdRow(user_name) # {}
    THEN CHOOSE u \in UserIdRow(user_name) : TRUE
    ELSE user_id

Clause(col, op, val) == [col |-> col, op |-> op, val |-> val]

\* get_replies, lines 14-52: the statement built from the arguments.  where
\* lists the conditions appended to 'WHERE 1=1'.  A date condition is appended
\* without a leading blank, so as the first condition it makes '1=1AND', which
\* is no SQL; so does a sort direction with no ORDER BY before it.  The lookup
\* of line 32 names t.topic_title, a column table topics does not have (its
\* column is title), so it fails whenever topic_title is given.
BuildReplyQuery(a) ==
    LET c1 == IF a.reply_id # NULL
              THEN <<Clause("reply_id", "=", a.reply_id)>> ELSE <<>>
        c2 == IF a.text # ""
              THEN <<Clause("text", "LIKE", a.text)>> ELSE <<>>
        c3 == IF a.user_id # NULL \/ a.user_name # ""
              THEN <<Clause("user_id", "=", ResolveUserId(a.user_id, a.user_name))>>
              ELSE <<>>
        c4 == IF a.topic_id # NULL \/ a.topic_title # ""
              THEN <<Clause("topic_id", "=", a.topic_id)>> ELSE <<>>
        head == c1 \o c2 \o c3 \o c4
        c5 == IF a.start_date # NULL
              THEN <<Clause("created", ">", a.start_date)>> ELSE <<>>
        c6 == IF a.end_date # NULL
              THEN <<Clause("created", "<", a.end_date)>> ELSE <<>>
    IN  [where |-> head \o c5 \o c6,
         lookup_fails |-> a.topic_title # "",
         malformed |-> \/ head = <<>> /\ c5 \o c6 # <<>>
                       \/ a.sort # "" /\ a.sort_by = "",
         order_by |-> a.sort_by,
         direction |-> IF a.sort = "asc" THEN "ASC"
                       ELSE IF a.sort = "desc" THEN "DESC" ELSE a.sort,
         limit |-> a.limit,
         offset |-> a.offset]

\* Whether a row of replies satisfies one condition of the WHERE clause.
Satisfies(r, c) ==
    CASE c.col = "reply_id" -> r.reply_id = c.val
      [] c.col = "text" -> Contains(r.text, c.val)
      [] c.col = "user_id" -> r.user_id = c.val
      [] c.col = "topic_id" -> r.topic_id = c.val
      [] c.col = "created" /\ c.op = ">" -> r.created > c.val
      [] c.col = "created" /\ c.op = "<" -> r.created < c.val

\* The value ORDER BY sorts a row on; rows come in reply_id order without it.
SortKey(r, order_by) ==
    CASE order_by = "user_id" -> r.user_id
      [] order_by = "topic_id" -> r.topic_id
      [] order_by = "created" -> r.created
      [] order_by = "reply_id" -> r.reply_id
      [] OTHER -> 0

RECURSIVE Ordered(_, _, _)
Ordered(rows, order_by, direction) ==
    IF rows = {} THEN <<>>
    ELSE LET Before(x, y) ==
                 \/ direction # "DESC" /\ SortKey(x, order_by) < SortKey(y, order_by)
                 \/ direction = "DESC" /\ SortKey(x, order_by) > SortKey(y, order_by)
                 \/ /\ SortKey(x, order_by) = SortKey(y, order_by)
                    /\ x.reply_id < y.reply_id
             first == CHOOSE x \in rows : \A y \in rows \ {x} : Before(x, y)
         IN  <<first>> \o Ordered(rows \ {first}, order_by, direction)

\* LIMIT ? OFFSET ?
Page(rows, limit, offset) ==
    SubSeq(rows, offset + 1,
           IF offset + limit < Len(rows) THEN offset + limit ELSE Len(rows))

\* read_query(query, params) on the statement built above.
RunReplyQuery(q) ==
    Page(Ordered({r \in replies : \A i \in 1..Len(q.where) : Satisfies(r, q.where[i])},
                 q.order_by, q.direction),
         q.limit, q.offset)

\* get_replies(...)
GetReplies(a) ==
    LET q == BuildReplyQuery(a)
    IN  resp' = IF q.lookup_fails
                THEN \* line 32 raises before the ORDER BY is appended
                     [op |-> "get_replies", args |-> a, order_by |-> "",
                      outcome |-> "DatabaseError", rows |-> <<>>]
                ELSE IF q.malformed
                THEN [op |-> "get_replies", args |-> a, order_by |-> q.order_by,
                      outcome |-> "DatabaseError", rows |-> <<>>]
                ELSE LET rows == RunReplyQuery(q)
                     IN  [op |-> "get_replies", args |-> a, order_by |-> q.order_by,
                          outcome |-> IF Len(rows) = 0 THEN "NotFound"
                                      ELSE IF Len(rows) < 2 THEN "single"
                                      ELSE "list",
                          rows |-> rows]

\* ------------------------------------- categories_services.get_categories
\* name LIKE '%pattern%' on the names and patterns of the model.
NameContains(name, pattern) ==
    \/ pattern = name
    \/ pattern = "e" /\ name \in {"General", "Help"}

\* get_categories, lines 28-46: the statement built from the arguments.  A
\* sort direction with no ORDER BY before it is no SQL.
BuildCategoryQuery(a) ==
    [category_id |-> a.category_id,
     name |-> a.name,
     malformed |-> a.sort # "" /\ a.sort_by = "",
     order_by |-> a.sort_by,
     direction |-> IF a.sort = "asc" THEN "ASC"
                   ELSE IF a.sort = "desc" THEN "DESC" ELSE a.sort,
     limit |-> a.limit,
     offset |-> a.offset]

\* The value ORDER BY sorts a category row on; rows come in category_id order
\* without it.
CategorySortKey(c, order_by) ==
    CASE order_by = "is_locked" -> IF c.is_locked THEN 1 ELSE 0
      [] OTHER -> c.category_id

RECURSIVE CategoriesOrdered(_, _, _)
CategoriesOrdered(rows, order_by, direction) ==
    IF rows = {} THEN <<>>
    ELSE LET Before(x, y) ==
                 \/ /\ direction # "DESC"
                    /\ CategorySortKey(x, order_by) < CategorySortKey(y, order_by)
                 \/ /\ direction = "DESC"
                    /\ CategorySortKey(x, order_by) > CategorySortKey(y, order_by)
                 \/ /\ CategorySortKey(x, order_by) = CategorySortKey(y, order_by)
                    /\ x.category_id < y.category_id
             first == CHOOSE x \in rows : \A y \in rows \ {x} : Before(x, y)
         IN  <<first>> \o CategoriesOrdered(rows \ {first}, order_by, direction)

\* read_query(query, params) on the statement built above.
RunCategoryQuery(q) ==
    Page(CategoriesOrdered(
             {c \in categories :
                 /\ q.category_id # NULL => c.category_id = q.category_id
                 /\ q.name # "" => NameContains(c.name, q.name)},
             q.order_by, q.direction),
         q.limit, q.offset)

\* get_categories(...), lines 48-54: a list of more than one row, else the
\* one row as a single object, else None.
GetCategories(a) ==
    LET q == BuildCategoryQuery(a)
    IN  resp' = IF q.malformed
                THEN [op |-> "get_categories", args |-> a, order_by |-> q.order_by,
                      outcome |-> "DatabaseError", rows |-> <<>>]
                ELSE LET rows == RunCategoryQuery(q)
                     IN  [op |-> "get_categories", args |-> a,
                          order_by |-> q.order_by,
                          outcome |-> IF Len(rows) > 1 THEN "list"
                                      ELSE IF Len(rows) = 1 THEN "single"
                                      ELSE "None",
                          rows |-> rows]

\* ---------------------------------------- topics_services.fetch_all_topics
MaxPage == 2
MaxPerPage == 2

\* t.title LIKE '%search%' on the titles and patterns of the model.
TitleContains(title, search) ==
    \/ search = title
    \/ search = "Hel" /\ title \in {"Hello", "Help"}

\* line 86: the fields fetch_all_topics sorts on.
TopicSortFields == {"topic_id", "user_id", "category_id", "status"}

\* lines 47-53: the joins of one topic row.  JOIN users and JOIN categories
\* drop a topic whose author or category has no row.
TopicJoins(t) ==
    /\ t.user_id \in Users
    /\ \E c \in categories : c.category_id = t.category_id

\* The category row joined to a topic.
CategoryOf(t) == CHOOSE c \in categories : c.category_id = t.category_id

\* Mutant: the restriction to what the user may see is left out.
TopicVisible_NoRestriction(t, user_id) == TRUE

\* lines 53, 61-62: (c.is_private = 0 or (c.is_private = 1 AND
\* ucp.write_access > 0)) over the LEFT JOIN on the permissions of the user;
\* not appended for an admin.
TopicVisible(t, user_id) ==
    \/ user_id \in Admins
    \/ ~CategoryOf(t).is_private
    \/ \E p \in perms : /\ p.category_id = t.category_id
                        /\ p.user_id = user_id
                        /\ p.write_access > 0

\* lines 64-76: the filters the caller asked for.
TopicFilters(t, a) ==
    /\ a.search # "" => TitleContains(t.title, a.search)
    /\ a.username # "" => Username(t.user_id) = a.username
    /\ a.category # "" => CategoryOf(t).name = a.category
    /\ a.status \in {"open", "closed"} => t.is_locked = (a.status = "closed")

\* line 78: the WHERE clause; SELECT DISTINCT makes each topic one row.
TopicMatches(t, a) ==
    /\ TopicJoins(t)
    /\ TopicVisible(t, a.current_user)
    /\ TopicFilters(t, a)

\* lines 86-88: the ORDER BY column, "" when none is appended.
TopicOrderBy(a) == IF a.sort_by \in TopicSortFields THEN a.sort_by ELSE ""

\* line 87
TopicOrder(a) == IF a.sort = "asc" THEN "ASC" ELSE "DESC"

\* The value ORDER BY sorts a topic row on; rows come in topic_id order
\* without it.
TopicSortKey(t, order_by) ==
    CASE order_by = "user_id" -> t.user_id
      [] order_by = "category_id" -> t.category_id
      [] OTHER -> t.topic_id

RECURSIVE TopicsOrdered(_, _, _)
TopicsOrdered(rows, order_by, direction) ==
    IF rows = {} THEN <<>>
    ELSE LET Before(x, y) ==
                 \/ /\ order_by # "" /\ direction = "DESC"
                    /\ TopicSortKey(x, order_by) > TopicSortKey(y, order_by)
                 \/ /\ ~(order_by # "" /\ direction = "DESC")
                    /\ TopicSortKey(x, order_by) < TopicSortKey(y, order_by)
                 \/ /\ TopicSortKey(x, order_by) = TopicSortKey(y, order_by)
                    /\ x.topic_id < y.topic_id
             first == CHOOSE x \in rows : \A y \in rows \ {x} : Before(x, y)
         IN  <<first>> \o TopicsOrdered(rows \ {first}, order_by, direction)

\* line 91: (page - 1) * per_page
TopicOffset(page, per_page) == (page - 1) * per_page

\* Mutant: total_pages is total_count // per_page.
TotalPages_RoundedDown(total_count, per_page) == total_count \div per_page

\* line 83: (total_count + per_page - 1) // per_page
TotalPages(total_count, per_page) == (total_count + per_page - 1) \div per_page

\* fetch_all_topics(...).  The topics table has no column status (its columns
\* are those of lines 48-49), so ORDER BY status fails in the store after the
\* count statement has run.
FetchAllTopics(a) ==
    resp' =
        IF a.current_user = NULL
        THEN [op |-> "fetch_all_topics", args |-> a, outcome |-> "None",
              order_by |-> "", rows |-> <<>>, total_pages |-> 0, total_count |-> 0]
        ELSE LET matching == {t \in topics : TopicMatches(t, a)}
                 total_count == Cardinality(matching)
                 order_by == TopicOrderBy(a)
             IN  IF order_by = "status"
                 THEN [op |-> "fetch_all_topics", args |-> a,
                       outcome |-> "DatabaseError", order_by |-> order_by,
                       rows |-> <<>>, total_pages |-> 0, total_count |-> 0]
                 ELSE [op |-> "fetch_all_topics", args |-> a, outcome |-> "ok",
                       order_by |-> order_by,
                       rows |-> Page(TopicsOrdered(matching, order_by, TopicOrder(a)),
                                     a.per_page, TopicOffset(a.page, a.per_page)),
                       total_pages |-> TotalPages(total_count, a.per_page),
                       total_count |-> total_count]

\* ------------------------------------------------------------------- Spec
InitPerms == {{}, {PermRow(2, 1, 1)}}

Init ==
    /\ categories = {CategoryRow(1, "General", FALSE, FALSE)}
    /\ topics = {}
    /\ replies = {}
    /\ perms \in InitPerms
    /\ nextId = [category |-> 2, topic |-> 1, reply |-> 1]
    /\ pc = "idle"
    /\ req = NoReq
    /\ pre = NoSnapshot
    /\ token_blacklist = {}
    /\ now = 0
    /\ auth = [op |-> "none"]
    /\ votes = NoVotes
    /\ vpc = [p \in Requests |-> "idle"]
    /\ vreq = [p \in Requests |-> NoReq]
    /\ vlast = NoReq
    /\ raced = {}
    /\ resp = NoReq

\* Ids a request can name: those handed out so far and the next one, which
\* no row has.
CategoryIds == 1..nextId.category
TopicIds == 1..nextId.topic
ReplyIds == 1..nextId.reply

\* What the forum requests leave alone.
othervars == <<authvars, votevars, queryvars>>

Next ==
    \/ \E n \in CatNames : CreateCategory(n, FALSE, FALSE) /\ UNCHANGED othervars
    \/ \E c \in CategoryIds, d \in BOOLEAN :
          DeleteCategoryStart(c, d) /\ UNCHANGED othervars
    \/ DeleteCategoryReplies /\ UNCHANGED othervars
    \/ DeleteCategoryTopics /\ UNCHANGED othervars
    \/ DeleteCategoryFinish /\ UNCHANGED othervars
    \/ \E ti \in Titles, tx \in Texts, c \in CategoryIds, u \in Authors,
          o \in InsertOutcomes :
          CreateNewTopic(ti, tx, c, u, o) /\ UNCHANGED othervars
    \/ \E r \in replies :
          UpdateBestReplyForTopic(r.topic_id, r.reply_id) /\ UNCHANGED othervars
    \/ \E r \in ReplyIds : RemoveBestReply(r) /\ UNCHANGED othervars
    \/ \E t \in TopicIds : DeleteTopicStart(t) /\ UNCHANGED othervars
    \/ DeleteTopicReplies /\ UNCHANGED othervars
    \/ DeleteTopicFinish /\ UNCHANGED othervars
    \/ \E tx \in Texts, t \in TopicIds, u \in Authors :
          CreateReply(tx, t, u) /\ UNCHANGED othervars
    \/ \E r \in ReplyIds, u \in Users \cup {NULL} :
          DeleteReplyHandler(r, u) /\ UNCHANGED othervars

vars == <<forumvars, authvars, votevars, queryvars>>

Spec == Init /\ [][Next]_vars

\* ===================================================== properties of Spec

\* C1: after delete(category_id, delete_topics=True) has completed on an
\* existing category, no topic row has that category_id, no reply row belongs
\* to a topic that had that category_id, no users_categories_permissions row
\* has that category_id, and the category row is gone.
CascadeDeleteComplete ==
    (pc = "idle" /\ req.op = "delete_category" /\ req.result # "NotFound"
        /\ req.delete_topics)
    => /\ \A t \in topics : t.category_id # req.category_id
       /\ \A r \in replies : \A t \in pre.topics :
             t.category_id = req.category_id => r.topic_id # t.topic_id
       /\ \A p \in perms : p.category_id # req.category_id
       /\ \A c \in categories : c.category_id # req.category_id

\* C1 witness: a cascading delete has completed on a category that had a
\* permission row and two topics, each with a reply.
CascadeDeleteDone ==
    /\ pc = "idle" /\ req.op = "delete_category" /\ req.result # "NotFound"
    /\ req.delete_topics
    /\ \E p \in pre.perms : p.category_id = req.category_id
    /\ \E t1, t2 \in pre.topics :
          /\ t1.topic_id # t2.topic_id
          /\ t1.category_id = req.category_id
          /\ t2.category_id = req.category_id
          /\ \E r \in pre.replies : r.topic_id = t1.topic_id
          /\ \E r \in pre.replies : r.topic_id = t2.topic_id

\* C7: every call of create_new_topic either adds exactly one topic row (not
\* locked, best_reply_id null, the given category) together with exactly one
\* reply row under it carrying topic.text and user_id, or adds no row at all.
TopicCreationIsOneUnit ==
    req.op = "create_new_topic"
    => \/ /\ topics = pre.topics
          /\ replies = pre.replies
       \/ \E t \in topics \ pre.topics, r \in replies \ pre.replies :
             /\ topics = pre.topics \cup {t}
             /\ replies = pre.replies \cup {r}
             /\ ~t.is_locked
             /\ t.best_reply_id = NULL
             /\ t.category_id = req.category_id
             /\ r.topic_id = t.topic_id
             /\ r.text = req.text
             /\ r.user_id = req.user_id

\* C8: delete_topic(topic_id) nulls the topic's best_reply_id, then deletes
\* the replies of the topic, then deletes the topic row; when it has
\* completed the topic and its replies are absent and every other topic,
\* reply and category row is as it was.
DeleteTopicThreeSteps ==
    req.op = "delete_topic"
    => LET id == req.topic_id
           cleared == {t \in topics : t.topic_id = id /\ t.best_reply_id = NULL}
           others == {t \in pre.topics : t.topic_id # id}
           kept == {r \in pre.replies : r.topic_id # id}
           had == \E t \in pre.topics : t.topic_id = id
       IN  /\ categories = pre.categories
           /\ pc \in {"dt_replies", "dt_topic", "idle"}
           /\ pc = "dt_replies"
                => /\ replies = pre.replies
                   /\ topics = others \cup cleared
                   /\ had => Cardinality(cleared) = 1
           /\ pc = "dt_topic"
                => /\ replies = kept
                   /\ topics = others \cup cleared
                   /\ had => Cardinality(cleared) = 1
           /\ pc = "idle"
                => /\ replies = kept
                   /\ topics = others

\* C8 witness: delete_topic has completed on a topic that had a best reply
\* and a reply, while another topic with a reply of its own is still there.
DeleteTopicDone ==
    /\ pc = "idle" /\ req.op = "delete_topic"
    /\ \E t \in pre.topics : /\ t.topic_id = req.topic_id
                             /\ t.best_reply_id # NULL
    /\ \E r \in pre.replies : r.topic_id = req.topic_id
    /\ \E t \in topics : \E r \in replies : r.topic_id = t.topic_id

\* C9: in every state, the states between the statements of delete_topic and
\* of the cascading category delete included, each topic's best_reply_id is
\* null or the id of an existing reply row.
BestReplyIntegrity ==
    \A t \in topics :
        t.best_reply_id = NULL \/ \E r \in replies : r.reply_id = t.best_reply_id

\* ========================================================= SpecModeration
\* Topics and replies written by any user, and delete_reply called on behalf
\* of any user or of none.
NextModeration ==
    \/ \E ti \in Titles, tx \in Texts, c \in CategoryIds, u \in Users :
          CreateNewTopic(ti, tx, c, u, "ok") /\ UNCHANGED othervars
    \/ \E tx \in Texts, t \in TopicIds, u \in Users :
          CreateReply(tx, t, u) /\ UNCHANGED othervars
    \/ \E r \in ReplyIds, u \in Users \cup {NULL} :
          DeleteReplyHandler(r, u) /\ UNCHANGED othervars

SpecModeration == Init /\ [][NextModeration]_vars

\* C2: delete_reply calls replies_services.delete for reply R on behalf of
\* user U only if U owns R or U is an admin; for every U that is neither, the
\* reply is not deleted and 'User not authorised' is returned.
OwnerOrAdminGate ==
    req.op = "delete_reply"
    => LET allowed == req.user_id # NULL
                      /\ (req.user_id = req.owner \/ req.user_id \in Admins)
       IN  /\ req.called => allowed
           /\ ~allowed => /\ ~req.called
                          /\ req.result = "User not authorised"
                          /\ \E r \in replies : r.reply_id = req.reply_id

\* ================================================================ SpecAuth
NextAuth ==
    \/ \E t \in Tokens : GetCurrentUser(t) /\ UNCHANGED <<forumvars, votevars, queryvars>>
    \/ \E t \in Tokens : VerifyToken(t) /\ UNCHANGED <<forumvars, votevars, queryvars>>
    \/ \E t \in Tokens : Logout(t) /\ UNCHANGED <<forumvars, votevars, queryvars>>
    \/ Tick /\ UNCHANGED <<forumvars, votevars, queryvars>>

SpecAuth == Init /\ [][NextAuth]_vars

Validations == {"get_current_user", "verify_token"}
\* The outcomes in which a validation lets the request go on as a user.
Accepted == {"ok", "user"}

\* C3: once a token is in token_blacklist, every later validation of that
\* token, by verify_token and by get_current_user alike, is rejected and
\* yields no user.
RevokedTokenRejected ==
    (auth.op \in Validations /\ auth.revoked)
    => auth.outcome \notin Accepted /\ auth.user = NoUser

\* C4: for a correctly signed, unexpired, non-revoked token whose payload
\* lacks sub or lacks is_admin, get_current_user and verify_token fail with
\* Unauthorized and return no user; they succeed only when both claims are
\* present.
MissingClaimUnauthorized ==
    auth.op \in Validations
    => /\ (/\ auth.token.signed
           /\ auth.token.payload.exp >= auth.at
           /\ ~auth.revoked
           /\ ~(HasClaim(auth.token, "sub") /\ HasClaim(auth.token, "is_admin")))
          => auth.outcome = "Unauthorized" /\ auth.user = NoUser
       /\ auth.outcome \in {"ok", "user", "None"}
          => HasClaim(auth.token, "sub") /\ HasClaim(auth.token, "is_admin")

\* ======================================================= SpecVote, SpecVoteRace
\* The store as the vote requests find it: one topic with one reply.
InitVote ==
    /\ categories = {CategoryRow(1, "General", FALSE, FALSE)}
    /\ topics = {TopicRow(1, "Hello", 2, FALSE, NULL, 1)}
    /\ replies = {ReplyRow(1, "First post", 2, 1, 1)}
    /\ perms = {}
    /\ nextId = [category |-> 2, topic |-> 2, reply |-> 2]
    /\ pc = "idle"
    /\ req = NoReq
    /\ pre = NoSnapshot
    /\ token_blacklist = {}
    /\ now = 0
    /\ auth = [op |-> "none"]
    /\ votes = NoVotes
    /\ vpc = [p \in Requests |-> "idle"]
    /\ vreq = [p \in Requests |-> NoReq]
    /\ vlast = NoReq
    /\ raced = {}
    /\ resp = NoReq

\* Vote requests served one at a time.
NextVote ==
    \/ \E u \in VoterIds, r \in VoteReplyIds, t \in BOOLEAN :
          /\ VoteLookup(1, u, r, t)
          /\ LookupAnswered(u, r, t)
          /\ UNCHANGED <<forumvars, authvars, queryvars>>
    \/ VoteWrite(1) /\ WriteAnswered(1) /\ UNCHANGED <<forumvars, authvars, queryvars>>

SpecVote == InitVote /\ [][NextVote]_vars

\* Vote requests whose lookup and write steps interleave.
NextVoteRace ==
    \/ \E p \in Requests, u \in VoterIds, r \in VoteReplyIds, t \in BOOLEAN :
          VoteLookup(p, u, r, t) /\ UNCHANGED <<forumvars, authvars, queryvars, vlast>>
    \/ \E p \in Requests :
          VoteWrite(p) /\ UNCHANGED <<forumvars, authvars, queryvars, vlast>>

SpecVoteRace == InitVote /\ [][NextVoteRace]_vars

\* The vote state machine of one (user, reply) pair.
Toggle(state, type) ==
    IF type THEN (IF state = "upvoted" THEN "no-vote" ELSE "upvoted")
    ELSE (IF state = "downvoted" THEN "no-vote" ELSE "downvoted")

OneVotePerPair ==
    \A u \in VoterIds, r \in VoteReplyIds : RowsOf(votes, u, r) <= 1

\* What holds of the racing requests: a pair has more than one row only once
\* two requests on it have overlapped.
OneVotePerPairUnlessRaced ==
    \A u \in VoterIds, r \in VoteReplyIds :
        <<u, r>> \notin raced => RowsOf(votes, u, r) <= 1

\* Both cases side by side: a pair on which requests never overlapped has its
\* one row and a further request on it between lookup and write, while
\* another pair, on which two requests overlapped, has two rows.
SerialPairBesideRacedPair ==
    \E u \in VoterIds, r \in VoteReplyIds :
        /\ <<u, r>> \notin raced
        /\ RowsOf(votes, u, r) = 1
        /\ \E p \in Requests : /\ vpc[p] = "looked"
                               /\ vreq[p].user_id = u
                               /\ vreq[p].reply_id = r
                               /\ vreq[p].seen # "None"
        /\ \E u2 \in VoterIds, r2 \in VoteReplyIds :
              <<u2, r2>> \in raced /\ RowsOf(votes, u2, r2) = 2

\* =============================================================== SpecQuery
\* The store as the listing calls find it: two topics and two replies, each
\* reply written by alice or bob under either topic.
QueryTopics ==
    {TopicRow(1, "Hello", 2, FALSE, NULL, 1), TopicRow(2, "Help", 3, FALSE, NULL, 1)}

QueryReplies ==
    {{ReplyRow(1, "First post", u1, t1, 1), ReplyRow(2, "Re", u2, t2, 2)} :
        u1 \in {2, 3}, u2 \in {2, 3}, t1 \in {1, 2}, t2 \in {1, 2}}

InitQuery ==
    /\ categories = {CategoryRow(1, "General", FALSE, FALSE),
                     CategoryRow(2, "Help", TRUE, FALSE)}
    /\ topics = QueryTopics
    /\ replies \in QueryReplies
    /\ perms = {}
    /\ nextId = [category |-> 3, topic |-> 3, reply |-> 3]
    /\ pc = "idle"
    /\ req = NoReq
    /\ pre = NoSnapshot
    /\ token_blacklist = {}
    /\ now = 0
    /\ auth = [op |-> "none"]
    /\ votes = NoVotes
    /\ vpc = [p \in Requests |-> "idle"]
    /\ vreq = [p \in Requests |-> NoReq]
    /\ vlast = NoReq
    /\ raced = {}
    /\ resp = NoReq

\* The arguments of get_replies; NULL and "" stand for None.
ReplyArgs ==
    [reply_id : {NULL, 1}, text : {"", "post"},
     user_id : {NULL, 2, 3}, user_name : {"", "alice", "bob"},
     topic_id : {NULL, 1, 2}, topic_title : {"", "Hello"},
     sort_by : {"", "created", "reply_id"}, sort : {"", "desc"},
     start_date : {NULL, 1}, end_date : {NULL, 2},
     limit : {1, 10}, offset : {0, 1}]

\* The arguments of get_categories.
CategoryArgs ==
    [category_id : {NULL, 1, 3}, name : {"", "e", "Help", "Nope"},
     sort_by : {"", "name", "is_locked"}, sort : {"", "asc", "desc"},
     limit : {1, 10}, offset : {0, 1}]

\* One listing call per behaviour: the call reads the store and changes
\* nothing, so a second call would find what the first found.
NextQuery ==
    /\ resp = NoReq
    /\ \/ \E a \in ReplyArgs : GetReplies(a)
       \/ \E a \in CategoryArgs : GetCategories(a)
    /\ UNCHANGED <<forumvars, authvars, votevars>>

SpecQuery == InitQuery /\ [][NextQuery]_vars

\* The title of the topic a reply belongs to.
TitleOf(r) == {t.title : t \in {x \in topics : x.topic_id = r.topic_id}}

\* C10: every reply get_replies returns satisfies all the supplied filters at
\* once; with user_name every returned reply was written by the user of that
\* name, with topic_title it belongs to the topic of that title, whether or
\* not user_id or topic_id is supplied as well.
ConjunctiveFilter ==
    resp.op = "get_replies"
    => \A i \in 1..Len(resp.rows) :
          LET r == resp.rows[i]
              a == resp.args
          IN  /\ a.reply_id # NULL => r.reply_id = a.reply_id
              /\ a.text # "" => Contains(r.text, a.text)
              /\ a.user_id # NULL => r.user_id = a.user_id
              /\ a.user_name # "" => Username(r.user_id) = a.user_name
              /\ a.topic_id # NULL => r.topic_id = a.topic_id
              /\ a.topic_title # "" => TitleOf(r) = {a.topic_title}
              /\ a.start_date # NULL => r.created > a.start_date
              /\ a.end_date # NULL => r.created < a.end_date

\* The fields a listing may be sorted on (sort_by of the HTTP surface).
ReplySortFields == {"user_id", "topic_id", "created"}
CategorySortFields == {"category_id", "name"}

\* C11: a sort_by value outside the entity's allow-list adds no ORDER BY to
\* the statement a listing builds; the statement never carries the caller's
\* sort_by text unless that text is an allow-listed field.
SortAllowList ==
    /\ resp.op = "get_replies" /\ resp.args.sort_by \notin ReplySortFields
          => resp.order_by = ""
    /\ resp.op = "get_categories" /\ resp.args.sort_by \notin CategorySortFields
          => resp.order_by = ""

\* C13: get_replies and get_categories answer with a collection whatever the
\* number of rows the statement matched: an empty one for no row, a
\* one-element one for one row.
ListingReturnsCollection ==
    /\ resp.op \in {"get_replies", "get_categories"}
    /\ resp.outcome # "DatabaseError"
    => resp.outcome = "list"

\* ============================================================== SpecTopics
\* The store as fetch_all_topics finds it: a public and a private category,
\* three topics of which the third may belong to a category that has no row,
\* and any permissions of alice and bob on the private category.
ListedCategories ==
    {CategoryRow(1, "General", FALSE, FALSE), CategoryRow(2, "Staff", FALSE, TRUE)}

ListedTopics ==
    {{TopicRow(1, "Hello", 2, FALSE, NULL, c1), TopicRow(2, "Help", 3, TRUE, NULL, c2),
      TopicRow(3, "Other", 2, FALSE, NULL, c3)} :
        c1 \in {1, 2}, c2 \in {1, 2}, c3 \in {2, 3}}

ListedPerms == SUBSET {PermRow(2, 2, 1), PermRow(2, 2, 0), PermRow(3, 2, 0)}

InitTopics ==
    /\ categories = ListedCategories
    /\ topics \in ListedTopics
    /\ replies = {}
    /\ perms \in ListedPerms
    /\ nextId = [category |-> 3, topic |-> 4, reply |-> 1]
    /\ pc = "idle"
    /\ req = NoReq
    /\ pre = NoSnapshot
    /\ token_blacklist = {}
    /\ now = 0
    /\ auth = [op |-> "none"]
    /\ votes = NoVotes
    /\ vpc = [p \in Requests |-> "idle"]
    /\ vreq = [p \in Requests |-> NoReq]
    /\ vlast = NoReq
    /\ raced = {}
    /\ resp = NoReq

\* The arguments of fetch_all_topics; NULL and "" stand for None.
TopicArgs ==
    [search : {"", "Hel"}, username : {"", "alice"}, category : {"", "Staff"},
     status : {"", "closed", "archived"}, sort : {"", "asc"},
     sort_by : {"", "category_id", "title", "status"},
     page : 1..MaxPage, per_page : 1..MaxPerPage,
     current_user : {NULL} \cup Users]

\* One listing call per behaviour, as in SpecQuery.
NextTopics ==
    /\ resp = NoReq
    /\ \E a \in TopicArgs : FetchAllTopics(a)
    /\ UNCHANGED <<forumvars, authvars, votevars>>

SpecTopics == InitTopics /\ [][NextTopics]_vars

\* C12: a fetch_all_topics call with page >= 1 and per_page >= 1 that
\* returns holds at most per_page topics; total_count is the number of topics
\* matching the filter predicate, total_pages is ceil(total_count / per_page),
\* and the topics returned are those at positions (page-1)*per_page ..
\* page*per_page-1 of the matching topics in the order of the statement.
PaginationOfTopics ==
    resp.op = "fetch_all_topics" /\ resp.outcome = "ok"
    => LET a == resp.args
           matching == {t \in topics : TopicMatches(t, a)}
           n == Cardinality(matching)
           first == (a.page - 1) * a.per_page
           left == IF n > first THEN n - first ELSE 0
           Key(t) == TopicSortKey(t, resp.order_by)
           Precedes(x, y) ==
               \/ Key(x) = Key(y) /\ x.topic_id < y.topic_id
               \/ Key(x) # Key(y) /\ ((Key(x) < Key(y)) <=>
                      (resp.order_by = "" \/ a.sort = "asc"))
       IN  /\ Len(resp.rows) <= a.per_page
           /\ resp.total_count = n
           /\ resp.total_pages * a.per_page >= n
           /\ (resp.total_pages - 1) * a.per_page < n
           /\ Len(resp.rows) = IF left < a.per_page THEN left ELSE a.per_page
           /\ \A i \in 1..Len(resp.rows) :
                 /\ resp.rows[i] \in matching
                 /\ Cardinality({t \in matching : Precedes(t, resp.rows[i])})
                       = first + i - 1

\* C12 witness: the second page of two topics a page holds the third of
\* three matching topics, and there are two pages.
SecondPageOfThree ==
    /\ resp.op = "fetch_all_topics" /\ resp.outcome = "ok"
    /\ resp.args.page = 2 /\ resp.args.per_page = 2
    /\ resp.total_count = 3 /\ resp.total_pages = 2
    /\ Len(resp.rows) = 1

\* C17: fetch_all_topics returns to a user who is no admin only topics of
\* categories that are not private or on which a permission row of that user
\* has write_access > 0, and total_count counts only such topics; an admin is
\* shown the topics of every category; without a current_user the call
\* returns None and no topic.
PrivateCategoryVisibility ==
    resp.op = "fetch_all_topics"
    => LET a == resp.args
           u == a.current_user
           Allowed(t) ==
               \E c \in categories :
                  /\ c.category_id = t.category_id
                  /\ \/ ~c.is_private
                     \/ \E p \in perms : /\ p.user_id = u
                                         /\ p.category_id = c.category_id
                                         /\ p.write_access > 0
           asked == {t \in topics : TopicJoins(t) /\ TopicFilters(t, a)}
       IN  /\ u = NULL => resp.outcome = "None" /\ resp.rows = <<>>
           /\ u # NULL /\ u \notin Admins /\ resp.outcome = "ok"
                 => /\ \A i \in 1..Len(resp.rows) : Allowed(resp.rows[i])
                    /\ resp.total_count = Cardinality({t \in asked : Allowed(t)})
           /\ u \in Admins /\ resp.outcome = "ok"
                 => resp.total_count = Cardinality(asked)

\* C17 witness: bob, whose only permission on the private category has
\* write_access 0, asks for all topics and is shown some, while a topic of the
\* private category is left out of the topics and of total_count.
PrivateTopicHidden ==
    /\ resp.op = "fetch_all_topics" /\ resp.outcome = "ok"
    /\ resp.args.current_user = 3
    /\ PermRow(3, 2, 0) \in perms
    /\ Len(resp.rows) > 0
    /\ \E t \in topics : /\ t.category_id = 2
                         /\ TopicFilters(t, resp.args)
                         /\ \A i \in 1..Len(resp.rows) : resp.rows[i] # t
    /\ resp.total_count < Cardinality({t \in topics : TopicFilters(t, resp.args)})

\* ======================================================= SpecCategoryNames
\* The names a category request may carry; "" is the empty string.
RequestNames == CatNames \cup {""}

\* create and update_name, one call after the other.
NextCategoryNames ==
    \/ \E n \in RequestNames : CreateCategory(n, FALSE, FALSE) /\ UNCHANGED othervars
    \/ \E c \in {NULL} \cup CategoryIds, o \in RequestNames, n \in RequestNames :
          UpdateName(c, o, n) /\ UNCHANGED othervars

SpecCategoryNames == Init /\ [][NextCategoryNames]_vars

\* C14: no two category rows share a name; create with a name that a row
\* carries raises Conflict, so does an update_name that finds its category and
\* is given a new name that a row carries, and a call that raises Conflict
\* leaves the categories as they were.
CategoryNamesUnique ==
    /\ \A c1 \in categories, c2 \in categories :
          c1.name = c2.name => c1.category_id = c2.category_id
    /\ req.op = "create_category" /\ (\E c \in pre.categories : c.name = req.name)
          => req.result = "Conflict"
    /\ (/\ req.op = "update_name"
        /\ req.result \notin {"NotFound", "BadRequest"}
        /\ \E c \in pre.categories : c.name = req.name)
          => req.result = "Conflict"
    /\ req.op \in {"create_category", "update_name"} /\ req.result = "Conflict"
          => categories = pre.categories

\* ============================================================ SpecCategory
\* Topic rows inserted in a behaviour of SpecCategory.
MaxTopicInserts == 1

\* The requests that create, toggle and delete categories, one after the
\* other, beside topics in them.
NextCategory ==
    \/ \E n \in CatNames : CreateCategory(n, FALSE, FALSE) /\ UNCHANGED othervars
    \/ \E c \in {NULL} \cup CategoryIds : LockUnlock(c) /\ UNCHANGED othervars
    \/ \E c \in {NULL} \cup CategoryIds :
          PrivatiseUnprivatise(c) /\ UNCHANGED othervars
    \/ \E c \in {NULL} \cup CategoryIds, d \in BOOLEAN :
          DeleteCategoryStart(c, d) /\ UNCHANGED othervars
    \/ DeleteCategoryReplies /\ UNCHANGED othervars
    \/ DeleteCategoryTopics /\ UNCHANGED othervars
    \/ DeleteCategoryFinish /\ UNCHANGED othervars
    \/ /\ nextId.topic <= MaxTopicInserts
       /\ \E ti \in Titles, tx \in Texts, c \in CategoryIds, u \in Authors :
             CreateNewTopic(ti, tx, c, u, "ok")
       /\ UNCHANGED othervars

SpecCategory == Init /\ [][NextCategory]_vars

ToggleInvertsFlag ==
    /\ req.op \in {"lock_unlock", "privatise_unprivatise"}
    /\ \E c \in pre.categories : c.category_id = req.category_id
    => LET old == CHOOSE c \in pre.categories : c.category_id = req.category_id
           new == IF req.op = "lock_unlock"
                  THEN [old EXCEPT !.is_locked = ~old.is_locked]
                  ELSE [old EXCEPT !.is_private = ~old.is_private]
           flag == IF req.op = "lock_unlock" THEN new.is_locked ELSE new.is_private
           set == IF req.op = "lock_unlock" THEN "locked" ELSE "made private"
           cleared == IF req.op = "lock_unlock" THEN "unlocked" ELSE "made public"
       IN  /\ categories = (pre.categories \ {old}) \cup {new}
           /\ topics = pre.topics /\ replies = pre.replies /\ perms = pre.perms
           /\ req.result = set <=> flag
           /\ req.result = cleared <=> ~flag
           /\ \A before \in req.before_previous : categories = before

\* C16 witness: a category locked by one call was unlocked by the next, with
\* another category beside it.
LockedThenUnlocked ==
    /\ req.op = "lock_unlock" /\ req.result = "unlocked"
    /\ req.before_previous # {}
    /\ Cardinality(categories) > 1

\* C18: whenever no request is under way, every topic row's category_id is
\* the id of a category row.
TopicCategoryIntegrity ==
    pc = "idle"
    => \A t \in topics : \E c \in categories : c.category_id = t.category_id

====
